---- MODULE Spec2Model ----
(***************************************************************************)
(* Model of visitCallExpression                                            *)
(* (src/transformer/before/visitor/visit/visit-call-expression.ts): the    *)
(* rewriting of require(...) calls into import declarations during one     *)
(* pass over one source file.                                              *)
(*                                                                         *)
(* State: the imports added to the file so far (context.addImport), the    *)
(* identifiers that are not free, the export descriptors obtained so far,  *)
(* the context flags, and the node visited last with what the visitor      *)
(* returned for it.                                                        *)
(***************************************************************************)
EXTENDS Integers, Sequences, FiniteSets, TLC

\* ------------------------------------------------------------------ bounds
MaxSites == 2      \* call sites visited in one pass
MaxElems == 2      \* elements of an object binding pattern

\* ------------------------------------------------------------ identifiers
\* An identifier is <<base, n>>: n = 0 is the text `base`, n > 0 the text
\* `base$<n-1>` that getFreeIdentifier derives by suffixing.
NoId == <<"", 0>>
Id(base) == <<base, 0>>
Suffixed(id, n) == <<id[1], id[2] + n>>

Specifiers == {"m", "n"}
NoSpecifier == ""
Names == {Id("a"), Id("b")}
\* Names bound in the source file before the pass starts.
FileLocals == {Id("b")}

\* generateNameFromModuleSpecifier
generateNameFromModuleSpecifier(moduleSpecifier) == Id(moduleSpecifier)

\* ---------------------------------------------------------------- exports
\* getModuleExportsFromRequireDataInContext: null (known = FALSE) or
\* {hasDefaultExport, namedExports}.
NoExports == [known |-> FALSE, hasDefaultExport |-> FALSE, namedExports |-> {}]
KnownExports(hasDefault, named) ==
    [known |-> TRUE, hasDefaultExport |-> hasDefault, namedExports |-> named]
Descriptors ==
    {NoExports, KnownExports(FALSE, {})}
      \cup {KnownExports(d, s) : d \in BOOLEAN, s \in {{Id("b")}, Names}}
\* The value of moduleExports for a specifier that no visit has resolved yet.
NotResolved == [known |-> FALSE, hasDefaultExport |-> TRUE, namedExports |-> {}]

\* ---------------------------------------------------------------- imports
BareImport(m) == [spec |-> m, kind |-> "bare", local |-> NoId, entries |-> <<>>]
DefaultImport(m, id) == [spec |-> m, kind |-> "default", local |-> id, entries |-> <<>>]
NamespaceImport(m, id) == [spec |-> m, kind |-> "namespace", local |-> id, entries |-> <<>>]
\* An ImportSpecifier is [propertyName, name]; propertyName = NoId when the
\* import is not aliased.
ImportSpecifier(propertyName, name) == [propertyName |-> propertyName, name |-> name]
NamedImports(m, specifiers) == [spec |-> m, kind |-> "named", local |-> NoId, entries |-> specifiers]
\* The exported name an ImportSpecifier imports.
ExportedName(specifier) ==
    IF specifier.propertyName # NoId THEN specifier.propertyName ELSE specifier.name

ImportLocals(imp) ==
    IF imp.kind = "named" THEN {imp.entries[i].name : i \in 1..Len(imp.entries)}
    ELSE IF imp.kind = "bare" THEN {}
    ELSE {imp.local}

\* ------------------------------------------------- the visitor's context
\* A context value c is [imports, locals]: the import declarations added so
\* far, in order, and the identifiers that are not free.
Context(imps, locs) == [imports |-> imps, locals |-> locs]

isModuleSpecifierImportedWithoutLocals(c, m) ==
    \E i \in 1..Len(c.imports) : c.imports[i] = BareImport(m)

IsDefaultOf(m, imp) == imp.spec = m /\ imp.kind = "default"
hasLocalForDefaultImportFromModule(c, m) ==
    \E i \in 1..Len(c.imports) : IsDefaultOf(m, c.imports[i])
getLocalForDefaultImportFromModule(c, m) ==
    c.imports[CHOOSE i \in 1..Len(c.imports) :
                 /\ IsDefaultOf(m, c.imports[i])
                 /\ \A j \in 1..(i - 1) : ~IsDefaultOf(m, c.imports[j])].local

IsNamespaceOf(m, imp) == imp.spec = m /\ imp.kind = "namespace"
hasLocalForNamespaceImportFromModule(c, m) ==
    \E i \in 1..Len(c.imports) : IsNamespaceOf(m, c.imports[i])
getLocalForNamespaceImportFromModule(c, m) ==
    c.imports[CHOOSE i \in 1..Len(c.imports) :
                 /\ IsNamespaceOf(m, c.imports[i])
                 /\ \A j \in 1..(i - 1) : ~IsNamespaceOf(m, c.imports[j])].local

IsNamedOf(m, propertyName, imp) ==
    /\ imp.spec = m
    /\ imp.kind = "named"
    /\ \E k \in 1..Len(imp.entries) : ExportedName(imp.entries[k]) = propertyName
hasLocalForNamedImportPropertyNameFromModule(c, propertyName, m) ==
    \E i \in 1..Len(c.imports) : IsNamedOf(m, propertyName, c.imports[i])
getLocalForNamedImportPropertyNameFromModule(c, propertyName, m) ==
    LET imp == c.imports[CHOOSE i \in 1..Len(c.imports) :
                            /\ IsNamedOf(m, propertyName, c.imports[i])
                            /\ \A j \in 1..(i - 1) :
                                  ~IsNamedOf(m, propertyName, c.imports[j])]
        k == CHOOSE k \in 1..Len(imp.entries) :
                /\ ExportedName(imp.entries[k]) = propertyName
                /\ \A j \in 1..(k - 1) : ExportedName(imp.entries[j]) # propertyName
    IN  imp.entries[k].name

isIdentifierFree(c, id) == id \notin c.locals

\* The first of candidate, candidate$0, candidate$1, ... that is free.
getFreeIdentifier(c, candidate) ==
    Suffixed(candidate,
             CHOOSE n \in 0..Cardinality(c.locals) :
                /\ Suffixed(candidate, n) \notin c.locals
                /\ \A k \in 0..(n - 1) : Suffixed(candidate, k) \in c.locals)

\* getFreeIdentifier reserves the identifier it returns.
addLocal(c, id) == Context(c.imports, c.locals \cup {id})

addImport(c, imp) == Context(Append(c.imports, imp), c.locals \cup ImportLocals(imp))

\* ------------------------------------------------------------ call sites
\* What the visitor reads of a CallExpression node and of its ancestors:
\*   isRequire    requireData.match
\*   specifier    requireData.moduleSpecifier (NoSpecifier: undetermined)
\*   access       the wrapping Element- or PropertyAccessExpression:
\*                "none", "static" (a name or a string literal, in key) or
\*                "dynamic" (any other argument expression)
\*   decl         the name of the VariableDeclaration holding the call:
\*                "none", "identifier", "object" (an ObjectBindingPattern,
\*                in elements) or "array" (any other binding name)
\*   inCall       a CallExpression wraps the call
\*   inStatement  expressionStatementParent != null
Element(propertyName, name) == [propertyName |-> propertyName, name |-> name]
\* {a}, {b} and {a: v}.
Elements ==
    {Element(NoId, x) : x \in Names} \cup {Element(Id("a"), Id("v"))}
Patterns == UNION {[1..k -> Elements] : k \in 0..MaxElems}

Site(isRequire, specifier, access, key, decl, elements, inCall, inStatement) ==
    [isRequire |-> isRequire, specifier |-> specifier, access |-> access,
     key |-> key, decl |-> decl, elements |-> elements, inCall |-> inCall,
     inStatement |-> inStatement]

Accesses == {<<"none", NoId>>, <<"dynamic", NoId>>} \cup {<<"static", k>> : k \in Names}
\* expressionStatementParent is searched up to the first Binary-, Call- or
\* NewExpression and callExpressionParent up to the first statement, so a
\* node never has both.
Enclosures == {<<FALSE, FALSE>>, <<TRUE, FALSE>>, <<FALSE, TRUE>>}

NoSite == Site(FALSE, NoSpecifier, "none", NoId, "none", <<>>, FALSE, FALSE)

\* The calls of the file: calls that are no require call or whose specifier
\* is undetermined, requires of "m" in every context, and requires of a
\* second module "n" in the simplest contexts (what is kept per specifier
\* can then be told from what is kept per file).
Sites ==
    {NoSite}
    \cup {Site(TRUE, NoSpecifier, "none", NoId, "none", <<>>, e[1], e[2]) : e \in Enclosures}
    \cup {Site(TRUE, "m", a[1], a[2], d, <<>>, e[1], e[2]) :
            a \in Accesses, d \in {"none", "identifier", "array"}, e \in Enclosures}
    \cup {Site(TRUE, "m", "none", NoId, "object", p, FALSE, FALSE) : p \in Patterns}
    \cup {Site(TRUE, "m", "dynamic", NoId, "object", <<Element(NoId, Id("b"))>>, FALSE, FALSE)}
    \cup {Site(TRUE, "n", "none", NoId, "none", <<>>, FALSE, TRUE),
          Site(TRUE, "n", "none", NoId, "identifier", <<>>, FALSE, FALSE),
          Site(TRUE, "n", "static", Id("a"), "none", <<>>, FALSE, FALSE),
          Site(TRUE, "n", "none", NoId, "object", <<Element(NoId, Id("a"))>>, FALSE, FALSE)}

\* ---------------------------------------------------------------- results
\* What visitCallExpression returns (or that it throws).
Result(kind, name, entries) == [kind |-> kind, name |-> name, entries |-> entries]
Continued == Result("continue", NoId, <<>>)        \* childContinuation(node)
Removed == Result("undefined", NoId, <<>>)         \* return undefined
SameNode == Result("node", NoId, <<>>)             \* return node
Thrown == Result("throw", NoId, <<>>)              \* throw new TypeError
IdentifierNode(id) == Result("identifier", id, <<>>)
\* An object literal is the sequence of its properties [key, value]; a
\* shorthand property assignment has key = value.
Property(key, value) == [key |-> key, value |-> value]
ObjectLiteral(properties) == Result("object", NoId, properties)

\* A visit's outcome: the result and the context it leaves.
Outcome(result, c) == [result |-> result, imports |-> c.imports, locals |-> c.locals]

\* ------------------------------------------------------------ the visitor
\* EnsureBareImport without the look-up of line 79.
EnsureBareImport_Always(m, c) == addImport(c, BareImport(m))

\* Lines 75-102: nothing is known about the exports, or there are no named
\* exports, or the call is a statement of a module without default export.
EnsureBareImport(m, c) ==
    IF ~isModuleSpecifierImportedWithoutLocals(c, m)
    THEN addImport(c, BareImport(m))
    ELSE c

ImportEntireModule(node, c) ==
    LET m == node.specifier IN
    IF node.inStatement
    THEN Outcome(Removed, EnsureBareImport(m, c))
    ELSE IF hasLocalForDefaultImportFromModule(c, m)
         THEN Outcome(IdentifierNode(getLocalForDefaultImportFromModule(c, m)), c)
         ELSE LET identifier == getFreeIdentifier(c, generateNameFromModuleSpecifier(m))
              IN  Outcome(IdentifierNode(identifier),
                          addImport(addLocal(c, identifier), DefaultImport(m, identifier)))

\* DefaultOrNamespaceImport as lines 91-100 do it: the default import, whatever
\* the module exports.
DefaultOrNamespaceImport_DefaultOnly(m, moduleExports, c) ==
    IF hasLocalForDefaultImportFromModule(c, m)
    THEN [identifier |-> getLocalForDefaultImportFromModule(c, m), context |-> c]
    ELSE LET identifier == getFreeIdentifier(c, generateNameFromModuleSpecifier(m))
         IN  [identifier |-> identifier,
              context |-> addImport(addLocal(c, identifier), DefaultImport(m, identifier))]

\* DefaultOrNamespaceImport without the look-up of an import already added.
DefaultOrNamespaceImport_AlwaysNew(m, moduleExports, c) ==
    LET identifier == getFreeIdentifier(c, generateNameFromModuleSpecifier(m))
    IN  [identifier |-> identifier,
         context |-> addImport(addLocal(c, identifier),
                               IF moduleExports.hasDefaultExport
                               THEN DefaultImport(m, identifier)
                               ELSE NamespaceImport(m, identifier))]

\* The default import if the module has a default export, else the
\* namespace import, reusing the one already added (lines 138-161, 239-268,
\* 327-356 and 386-415 repeat it): [identifier, context].
DefaultOrNamespaceImport(m, moduleExports, c) ==
    IF moduleExports.hasDefaultExport /\ hasLocalForDefaultImportFromModule(c, m)
    THEN [identifier |-> getLocalForDefaultImportFromModule(c, m), context |-> c]
    ELSE IF ~moduleExports.hasDefaultExport /\ hasLocalForNamespaceImportFromModule(c, m)
    THEN [identifier |-> getLocalForNamespaceImportFromModule(c, m), context |-> c]
    ELSE LET identifier == getFreeIdentifier(c, generateNameFromModuleSpecifier(m))
         IN  [identifier |-> identifier,
              context |-> addImport(addLocal(c, identifier),
                                    IF moduleExports.hasDefaultExport
                                    THEN DefaultImport(m, identifier)
                                    ELSE NamespaceImport(m, identifier))]

ReplaceByModuleIdentifier(node, moduleExports, c) ==
    LET r == DefaultOrNamespaceImport(node.specifier, moduleExports, c)
    IN  Outcome(IdentifierNode(r.identifier), r.context)

\* Lines 133-167: the accessed name is no named export.
PropertyAssignmentOrShorthand(rightValue, id) ==
    IF id # rightValue THEN Property(rightValue, id) ELSE Property(id, id)

AccessOfModule(node, moduleExports, c) ==
    LET r == DefaultOrNamespaceImport(node.specifier, moduleExports, c)
    IN  Outcome(ObjectLiteral(<<PropertyAssignmentOrShorthand(node.key, r.identifier)>>),
                r.context)

\* AccessOfNamedExport without the look-up of the namespace import (lines
\* 186-187).
AccessOfNamedExport_WithoutNamespace(node, moduleExports, c) ==
    LET m == node.specifier
        importBindingPropertyName == node.key
        r == IF hasLocalForNamedImportPropertyNameFromModule(c, importBindingPropertyName, m)
             THEN [identifier |->
                     getLocalForNamedImportPropertyNameFromModule(c, importBindingPropertyName, m),
                   context |-> c]
             ELSE LET free == isIdentifierFree(c, importBindingPropertyName)
                      importBindingName ==
                          IF free THEN importBindingPropertyName
                          ELSE getFreeIdentifier(c, importBindingPropertyName)
                      reserved == IF free THEN c ELSE addLocal(c, importBindingName)
                  IN  [identifier |-> importBindingName,
                       context |->
                         addImport(reserved,
                           NamedImports(m,
                             <<IF importBindingPropertyName = importBindingName
                               THEN ImportSpecifier(NoId, importBindingPropertyName)
                               ELSE ImportSpecifier(importBindingPropertyName,
                                                    importBindingName)>>))]
    IN  IF ~node.inStatement
        THEN Outcome(ObjectLiteral(<<PropertyAssignmentOrShorthand(node.key, r.identifier)>>),
                     r.context)
        ELSE Outcome(Removed, r.context)

\* Lines 172-221: the accessed name is a named export.
AccessOfNamedExport(node, moduleExports, c) ==
    LET m == node.specifier
        importBindingPropertyName == node.key
        r == IF hasLocalForNamedImportPropertyNameFromModule(c, importBindingPropertyName, m)
             THEN [identifier |->
                     getLocalForNamedImportPropertyNameFromModule(c, importBindingPropertyName, m),
                   context |-> c]
             ELSE IF ~moduleExports.hasDefaultExport
                     /\ hasLocalForNamespaceImportFromModule(c, m)
             THEN [identifier |-> getLocalForNamespaceImportFromModule(c, m), context |-> c]
             ELSE LET free == isIdentifierFree(c, importBindingPropertyName)
                      importBindingName ==
                          IF free THEN importBindingPropertyName
                          ELSE getFreeIdentifier(c, importBindingPropertyName)
                      reserved == IF free THEN c ELSE addLocal(c, importBindingName)
                  IN  [identifier |-> importBindingName,
                       context |->
                         addImport(reserved,
                           NamedImports(m,
                             <<IF importBindingPropertyName = importBindingName
                               THEN ImportSpecifier(NoId, importBindingPropertyName)
                               ELSE ImportSpecifier(importBindingPropertyName,
                                                    importBindingName)>>))]
    IN  IF ~node.inStatement
        THEN Outcome(ObjectLiteral(<<PropertyAssignmentOrShorthand(node.key, r.identifier)>>),
                     r.context)
        ELSE Outcome(Removed, r.context)

\* Lines 280-320: one BindingElement of the pattern. acc is
\* [importSpecifiers, skippedImportSpecifiers, context].
BindingElement(element, m, moduleExports, acc) ==
    LET c == acc.context IN
    IF element.propertyName = NoId
    THEN IF element.name \in moduleExports.namedExports
         THEN IF hasLocalForNamedImportPropertyNameFromModule(c, element.name, m)
              THEN LET local == getLocalForNamedImportPropertyNameFromModule(c, element.name, m)
                   IN  [acc EXCEPT !.skippedImportSpecifiers =
                          Append(@, IF local = element.name
                                    THEN ImportSpecifier(NoId, local)
                                    ELSE ImportSpecifier(element.name, local))]
              ELSE IF isIdentifierFree(c, element.name)
              THEN [acc EXCEPT !.importSpecifiers =
                      Append(@, ImportSpecifier(NoId, element.name))]
              ELSE LET alias == getFreeIdentifier(c, element.name)
                   IN  [acc EXCEPT !.importSpecifiers =
                                      Append(@, ImportSpecifier(element.name, alias)),
                                   !.context = addLocal(c, alias)]
         ELSE acc
    ELSE IF isIdentifierFree(c, element.propertyName)
         THEN [acc EXCEPT !.importSpecifiers =
                 Append(@, ImportSpecifier(NoId, element.propertyName))]
         ELSE LET alias == getFreeIdentifier(c, element.propertyName)
              IN  [acc EXCEPT !.importSpecifiers =
                                 Append(@, ImportSpecifier(element.propertyName, alias)),
                              !.context = addLocal(c, alias)]

RECURSIVE BindingElements(_, _, _, _, _)
BindingElements(elements, i, m, moduleExports, acc) ==
    IF i > Len(elements) THEN acc
    ELSE BindingElements(elements, i + 1, m, moduleExports,
                         BindingElement(elements[i], m, moduleExports, acc))

\* Lines 366-372: the property an ImportSpecifier becomes.
PropertyOfSpecifier(specifier) ==
    IF specifier.propertyName # NoId
    THEN Property(specifier.propertyName, specifier.name)
    ELSE Property(specifier.name, specifier.name)

\* ImportNamedBindings listing the skipped specifiers first.
ImportNamedBindings_SkippedFirst(m, importSpecifiers, skippedImportSpecifiers, c) ==
    LET all == skippedImportSpecifiers \o importSpecifiers
    IN  Outcome(ObjectLiteral([i \in 1..Len(all) |-> PropertyOfSpecifier(all[i])]),
                IF Len(importSpecifiers) > 0
                THEN addImport(c, NamedImports(m, importSpecifiers))
                ELSE c)

\* Lines 362-372: the named import and the object literal.
ImportNamedBindings(m, importSpecifiers, skippedImportSpecifiers, c) ==
    LET all == importSpecifiers \o skippedImportSpecifiers
    IN  Outcome(ObjectLiteral([i \in 1..Len(all) |-> PropertyOfSpecifier(all[i])]),
                IF Len(importSpecifiers) > 0
                THEN addImport(c, NamedImports(m, importSpecifiers))
                ELSE c)

\* Lines 275-374: the call initializes an ObjectBindingPattern.
ObjectBindingPattern(node, moduleExports, c) ==
    LET acc == BindingElements(node.elements, 1, node.specifier, moduleExports,
                               [importSpecifiers |-> <<>>,
                                skippedImportSpecifiers |-> <<>>,
                                context |-> c])
    IN  IF Len(acc.importSpecifiers) + Len(acc.skippedImportSpecifiers) # Len(node.elements)
        THEN ReplaceByModuleIdentifier(node, moduleExports, acc.context)
        ELSE ImportNamedBindings(node.specifier, acc.importSpecifiers,
                                 acc.skippedImportSpecifiers, acc.context)

\* Unhandled without the test of context.debug.
Unhandled_NeverThrows(debug, node, c) == Outcome(SameNode, c)

\* Lines 418-422.
Unhandled(debug, node, c) ==
    IF debug THEN Outcome(Thrown, c) ELSE Outcome(SameNode, c)

\* ImportForRequire with an access of a key that is not static handled as
\* the branch of line 75 handles a call.
ImportForRequire_DynamicAsEntireModule(node, moduleExports, debug, c) ==
    IF \/ ~moduleExports.known
       \/ moduleExports.namedExports = {}
       \/ (node.inStatement /\ ~moduleExports.hasDefaultExport)
       \/ node.access = "dynamic"
    THEN ImportEntireModule(node, c)
    ELSE IF node.access = "static"
    THEN IF node.key \notin moduleExports.namedExports
         THEN AccessOfModule(node, moduleExports, c)
         ELSE AccessOfNamedExport(node, moduleExports, c)
    ELSE IF node.decl = "identifier"
    THEN ReplaceByModuleIdentifier(node, moduleExports, c)
    ELSE IF node.decl = "object"
    THEN ObjectBindingPattern(node, moduleExports, c)
    ELSE IF node.inCall
    THEN ReplaceByModuleIdentifier(node, moduleExports, c)
    ELSE Unhandled(debug, node, c)

\* Lines 75 and 104-422: the module specifier and its exports are known.
ImportForRequire(node, moduleExports, debug, c) ==
    IF \/ ~moduleExports.known
       \/ moduleExports.namedExports = {}
       \/ (node.inStatement /\ ~moduleExports.hasDefaultExport)
    THEN ImportEntireModule(node, c)
    ELSE IF node.access = "static"
    THEN IF node.key \notin moduleExports.namedExports
         THEN AccessOfModule(node, moduleExports, c)
         ELSE AccessOfNamedExport(node, moduleExports, c)
    ELSE IF node.decl = "identifier"
    THEN ReplaceByModuleIdentifier(node, moduleExports, c)
    ELSE IF node.decl = "object"
    THEN ObjectBindingPattern(node, moduleExports, c)
    ELSE IF node.inCall
    THEN ReplaceByModuleIdentifier(node, moduleExports, c)
    ELSE Unhandled(debug, node, c)

\* UndeterminedSpecifier leaving the call in place.
UndeterminedSpecifier_Unmodified(node, c) == Outcome(SameNode, c)

\* Line 60.
UndeterminedSpecifier(node, c) == Outcome(Removed, c)

visitCallExpression(node, moduleExports, debug, onlyExports, c) ==
    IF onlyExports THEN Outcome(Continued, c)
    ELSE IF ~node.isRequire THEN Outcome(Continued, c)
    ELSE IF node.specifier = NoSpecifier THEN UndeterminedSpecifier(node, c)
    ELSE ImportForRequire(node, moduleExports, debug, c)

\* ------------------------------------------------------------------ state
VARIABLES
    imports,        \* the import declarations added, in order
    locals,         \* the identifiers that are not free
    exportsOf,      \* specifier -> the exports obtained for it, or NotResolved
    debug,          \* context.debug
    onlyExports,    \* context.onlyExports
    node,           \* the call visited last
    result,         \* what the visitor returned for it
    before,         \* the context that visit started from
    visited         \* the number of calls visited

vars == <<imports, locals, exportsOf, debug, onlyExports, node, result, before, visited>>

NoResult == Result("none", NoId, <<>>)

Init ==
    /\ imports = <<>>
    /\ locals = FileLocals
    /\ exportsOf = [m \in Specifiers |-> NotResolved]
    /\ debug \in BOOLEAN
    /\ onlyExports \in BOOLEAN
    /\ node = NoSite
    /\ result = NoResult
    /\ before = Context(<<>>, FileLocals)
    /\ visited = 0

\* Line 66 is reached: the exports of the specifier are obtained.
ObtainsExports(site) ==
    ~onlyExports /\ site.isRequire /\ site.specifier # NoSpecifier

\* One call of visitCallExpression. A TypeError ends the pass.
Visit(site) ==
    /\ visited < MaxSites
    /\ result # Thrown
    /\ \E d \in Descriptors \cup {NotResolved} :
         /\ IF ObtainsExports(site)
            THEN /\ d \in Descriptors
                 /\ exportsOf[site.specifier] \in {NotResolved, d}
                 /\ exportsOf' = [exportsOf EXCEPT ![site.specifier] = d]
            ELSE /\ d = NotResolved
                 /\ UNCHANGED exportsOf
         /\ LET o == visitCallExpression(site, d, debug, onlyExports,
                                         Context(imports, locals))
            IN  /\ imports' = o.imports
                /\ locals' = o.locals
                /\ result' = o.result
    /\ node' = site
    /\ before' = Context(imports, locals)
    /\ visited' = visited + 1
    /\ UNCHANGED <<debug, onlyExports>>

Next == \E site \in Sites : Visit(site)

Spec == Init /\ [][Next]_vars

\* ------------------------------------------------- reading the last visit
\* The visit reached line 66 for a require call of a known specifier.
Required == visited > 0 /\ ~onlyExports /\ node.isRequire /\ node.specifier # NoSpecifier
Exports == exportsOf[node.specifier]
\* Line 75 holds.
WithoutNamedExports ==
    \/ ~Exports.known
    \/ Exports.namedExports = {}
    \/ (node.inStatement /\ ~Exports.hasDefaultExport)
\* The imports the last visit added and the identifiers it made not free.
Added == SubSeq(imports, Len(before.imports) + 1, Len(imports))
NoImportAdded == imports = before.imports
ContextUnchanged == imports = before.imports /\ locals = before.locals

ImportsOfKind(imps, m, kind) ==
    {i \in 1..Len(imps) : imps[i].spec = m /\ imps[i].kind = kind}

\* C1: a module specifier never gets two default imports nor two namespace
\* imports in one pass.
C1_OneDefaultOneNamespace ==
    \A m \in Specifiers :
        /\ Cardinality(ImportsOfKind(imports, m, "default")) <= 1
        /\ Cardinality(ImportsOfKind(imports, m, "namespace")) <= 1

\* A second call in need of the whole module finds the import of the first.
C1_Witness ==
    /\ Required
    /\ result.kind = "identifier"
    /\ NoImportAdded
    /\ \E i \in 1..Len(imports) :
          /\ imports[i].spec = node.specifier
          /\ imports[i].kind \in {"default", "namespace"}
          /\ imports[i].local = result.name

\* The exported name a BindingElement asks for.
ElementExportedName(element) ==
    IF element.propertyName # NoId THEN element.propertyName ELSE element.name

\* The places <<i, k>> of the named-import entries of exported name x from m.
NamedEntries(imps, m, x) ==
    {p \in {<<i, k>> : i \in 1..Len(imps), k \in 1..MaxElems + 1} :
        /\ imps[p[1]].spec = m
        /\ imps[p[1]].kind = "named"
        /\ p[2] <= Len(imps[p[1]].entries)
        /\ ExportedName(imps[p[1]].entries[p[2]]) = x}

\* The exported names the visited call asks for by member access or by
\* destructuring.
AskedNames ==
    IF node.access = "static" THEN {node.key}
    ELSE IF node.decl = "object"
         THEN {ElementExportedName(node.elements[i]) : i \in 1..Len(node.elements)}
         ELSE {}

\* C2: for every specifier and exported name at most one named-import entry
\* is ever added, and a call site asking for an exported name that already
\* has a named local adds no named import for it.
C2_NoDuplicateNamedImport ==
    /\ \A m \in Specifiers, x \in Names :
          Cardinality(NamedEntries(imports, m, x)) <= 1
    /\ Required =>
          \A x \in AskedNames :
              hasLocalForNamedImportPropertyNameFromModule(before, x, node.specifier)
                 => NamedEntries(Added, node.specifier, x) = {}

\* C3: a module required as a bare statement (exports unknown, no named
\* exports, or no default export) gets its bare import from the first such
\* call only, and each such call is removed.
BareStatement == Required /\ node.inStatement /\ WithoutNamedExports
C3_BareImportOnce ==
    /\ \A m \in Specifiers : Cardinality(ImportsOfKind(imports, m, "bare")) <= 1
    /\ BareStatement =>
          /\ result = Removed
          /\ Cardinality(ImportsOfKind(imports, node.specifier, "bare")) = 1
          /\ IF ImportsOfKind(before.imports, node.specifier, "bare") = {}
             THEN Added = <<BareImport(node.specifier)>>
             ELSE Added = <<>>

\* The second bare statement requiring the module.
C3_Witness ==
    /\ BareStatement
    /\ visited = 2
    /\ before.imports = <<BareImport(node.specifier)>>
    /\ imports = before.imports
    /\ result = Removed

\* The local of the default or namespace import of m, if x is one.
IsModuleLocal(imps, m, x) ==
    \E i \in 1..Len(imps) :
        /\ imps[i].spec = m
        /\ imps[i].kind \in {"default", "namespace"}
        /\ imps[i].local = x

\* C4: a destructuring binding with an element that is no named export adds
\* no named import and is replaced by the identifier of a whole-module
\* import.
C4_AllOrNothing ==
    (/\ Required
     /\ node.access = "none"
     /\ node.decl = "object"
     /\ \E x \in AskedNames : x \notin Exports.namedExports)
    => /\ \A i \in 1..Len(Added) : Added[i].kind # "named"
       /\ result.kind = "identifier"
       /\ IsModuleLocal(imports, node.specifier, result.name)

\* The locals the imports introduce, as places <<i, k>> (k = 0: the local
\* of a default or namespace import).
IntroducedAt(imps) ==
    {p \in {<<i, k>> : i \in 1..Len(imps), k \in 0..MaxElems + 1} :
        IF p[2] = 0 THEN imps[p[1]].kind \in {"default", "namespace"}
        ELSE imps[p[1]].kind = "named" /\ p[2] <= Len(imps[p[1]].entries)}
LocalAt(imps, p) ==
    IF p[2] = 0 THEN imps[p[1]].local ELSE imps[p[1]].entries[p[2]].name

\* C5: every local introduced for a new import differs from the names bound
\* in the file and from every local introduced before it in the pass.
C5_FreshLocals ==
    \A p \in IntroducedAt(imports) :
        /\ LocalAt(imports, p) \notin FileLocals
        /\ \A q \in IntroducedAt(imports) :
              q # p => LocalAt(imports, q) # LocalAt(imports, p)

\* A require call whose module specifier could not be determined.
UndeterminedRequire ==
    visited > 0 /\ ~onlyExports /\ node.isRequire /\ node.specifier = NoSpecifier

\* C6 as stated: such a call is returned unmodified, adds no import, leaves
\* the registry unchanged and raises no failure.
C6_ReturnedUnmodified ==
    UndeterminedRequire => result.kind \in {"node", "continue"} /\ ContextUnchanged

\* C6 as amended: such a call is removed (the visitor returns undefined),
\* adds no import, leaves the registry unchanged and raises no failure.
C6_RemovedWithoutImport ==
    UndeterminedRequire => result = Removed /\ ContextUnchanged

C6_Witness ==
    UndeterminedRequire /\ result = Removed /\ imports # <<>> /\ imports = before.imports

\* No member access with a static key, no variable binding to a plain name
\* or an object pattern, no wrapping call.
NoUsageContext ==
    /\ node.access # "static"
    /\ node.decl \notin {"identifier", "object"}
    /\ ~node.inCall
Failure == IF debug THEN Thrown ELSE SameNode

\* C7 as stated: a require call that no usage context matches throws in
\* strict mode and is returned unchanged in lenient mode, and adds no import
\* and reserves no name.
C7_UnmatchedIsUnhandled ==
    (Required /\ NoUsageContext) => result = Failure /\ ContextUnchanged

\* C7 as amended: the same, for a module with known named exports whose call
\* is not a statement of a module without default export (any other call is
\* decided by line 75 before its usage context is looked at).
C7_UnmatchedWithNamedExportsIsUnhandled ==
    (Required /\ ~WithoutNamedExports /\ NoUsageContext)
        => result = Failure /\ ContextUnchanged

C7_Witness ==
    /\ Required /\ ~WithoutNamedExports /\ NoUsageContext
    /\ debug
    /\ result = Thrown
    /\ imports # <<>>

\* The visited call is not removed and is given a whole-module binding: in
\* the branch of line 75, for an access of a name that is no named export,
\* for a binding to a plain name, for a destructuring binding that fell
\* back, for a wrapped call.
NeedsWholeModule ==
    /\ Required
    /\ \/ WithoutNamedExports /\ ~node.inStatement
       \/ /\ ~WithoutNamedExports
          /\ \/ node.access = "static" /\ node.key \notin Exports.namedExports
             \/ node.access # "static" /\ node.decl = "identifier"
             \/ node.access # "static" /\ node.decl = "object" /\ result.kind = "identifier"
             \/ node.access # "static" /\ node.decl \in {"none", "array"} /\ node.inCall

\* The identifier the call was replaced by, or that its object literal holds.
UsedLocal ==
    IF result.kind = "identifier" THEN result.name
    ELSE IF result.kind = "object" /\ Len(result.entries) = 1
         THEN result.entries[1].value
         ELSE NoId

\* The existing import of the kind is reused; without one, one import of
\* the kind is added, and nothing else.
WholeModuleAs(kind) ==
    LET m == node.specifier
        had == ImportsOfKind(before.imports, m, kind)
    IN  /\ UsedLocal # NoId
        /\ IF had # {}
           THEN /\ NoImportAdded
                /\ \E i \in had : before.imports[i].local = UsedLocal
           ELSE Added = <<[spec |-> m, kind |-> kind, local |-> UsedLocal, entries |-> <<>>]>>

\* C8 as stated: the binding is the default import when the module has a
\* default export or its exports are unknown, and the namespace import when
\* its exports are known to have no default export.
C8_DefaultUnlessKnownWithoutDefault ==
    NeedsWholeModule =>
        WholeModuleAs(IF ~Exports.known \/ Exports.hasDefaultExport
                      THEN "default" ELSE "namespace")

\* C8 as amended: the same, except that a module known to have neither
\* named exports nor a default export gets the default import too (lines
\* 91-100 never look at hasDefaultExport).
C8_DefaultUnlessNamedWithoutDefault ==
    NeedsWholeModule =>
        WholeModuleAs(IF ~Exports.known \/ Exports.namedExports = {}
                         \/ Exports.hasDefaultExport
                      THEN "default" ELSE "namespace")

\* A wrapped call reuses the namespace import of a module without default
\* export.
C8_Witness ==
    /\ NeedsWholeModule
    /\ node.inCall
    /\ Exports.known /\ ~Exports.hasDefaultExport
    /\ NoImportAdded
    /\ \E i \in ImportsOfKind(before.imports, node.specifier, "namespace") :
          result = IdentifierNode(before.imports[i].local)

\* An access whose key is not static, of a module with named exports.
DynamicAccess ==
    /\ Required
    /\ node.access = "dynamic"
    /\ Exports.known
    /\ Exports.namedExports # {}
HasBareImport == ImportsOfKind(imports, node.specifier, "bare") # {}
ReplacedByModuleLocal ==
    result.kind = "identifier" /\ IsModuleLocal(imports, node.specifier, result.name)

\* C9 as stated: such a call is handled as in the branch of line 75: a
\* statement gets the bare import and is removed, any other call is
\* replaced by the identifier of a whole-module import.
C9_DynamicAsEntireModule ==
    DynamicAccess =>
        /\ result \notin {Thrown, SameNode}
        /\ (node.inStatement /\ node.decl = "none") => (result = Removed /\ HasBareImport)
        /\ ~node.inStatement => ReplacedByModuleLocal

\* C9 as amended: such a call is handled as a call without member access:
\* a statement of a module without default export gets the bare import and
\* is removed; otherwise a binding to a plain name, or else a wrapping call,
\* has it replaced by the identifier of a whole-module import, a
\* destructuring binding is decided by the destructuring rule, and with
\* none of these it ends in the Unresolved outcome.
C9_DynamicAsNoAccess ==
    DynamicAccess =>
        IF node.inStatement /\ ~Exports.hasDefaultExport
        THEN result = Removed /\ HasBareImport
        ELSE IF node.decl = "identifier" THEN ReplacedByModuleLocal
        ELSE IF node.decl = "object" THEN result.kind \in {"object", "identifier"}
        ELSE IF node.inCall THEN ReplacedByModuleLocal
        ELSE result = Failure /\ ContextUnchanged

\* The statement `require("m")[k];` of a module with a default export.
C9_Witness ==
    /\ DynamicAccess
    /\ node.inStatement
    /\ node.decl = "none"
    /\ Exports.hasDefaultExport
    /\ result = SameNode

\* A destructuring binding that reaches lines 275-374 with every element a
\* named export.
DestructuresNamedExports ==
    /\ Required
    /\ ~WithoutNamedExports
    /\ node.access # "static"
    /\ node.decl = "object"
    /\ \A x \in AskedNames : x \in Exports.namedExports

ElementIndices == [i \in 1..Len(node.elements) |-> i]
HadNamedLocal(i) ==
    hasLocalForNamedImportPropertyNameFromModule(
        before, ElementExportedName(node.elements[i]), node.specifier)
\* The elements the source reuses a named local for: those without
\* propertyName (lines 287-292; lines 311-319 never look one up).
IsSkipped(i) == node.elements[i].propertyName = NoId /\ HadNamedLocal(i)

\* At most one import is added: a named import of exactly the elements
\* `new`, in their order.
AddsNamedImportOf(new) ==
    IF new = <<>> THEN Added = <<>>
    ELSE /\ Len(Added) = 1
         /\ Added[1].spec = node.specifier
         /\ Added[1].kind = "named"
         /\ Len(Added[1].entries) = Len(new)
         /\ \A j \in 1..Len(new) :
               ExportedName(Added[1].entries[j]) = ElementExportedName(node.elements[new[j]])

\* The call is replaced by an object literal of one property per element,
\* the elements taken in `order`, the first `n` of them the new ones.
ReplacedByLiteralOf(order, n) ==
    /\ result.kind = "object"
    /\ Len(result.entries) = Len(order)
    /\ \A j \in 1..Len(order) :
          LET x == ElementExportedName(node.elements[order[j]])
          IN  /\ result.entries[j].key = x
              /\ result.entries[j].value =
                    IF j <= n THEN Added[1].entries[j].name
                    ELSE getLocalForNamedImportPropertyNameFromModule(
                             before, x, node.specifier)

\* C10 as stated: the named import holds exactly the elements that had no
\* named local, and the object literal lists all elements in source order.
\* It is stated for the patterns without explicit exported name, where
\* "had no named local" and "is not reused" agree (C2 is about the others).
WithoutExplicitNames ==
    \A i \in 1..Len(node.elements) : node.elements[i].propertyName = NoId
C10_LiteralInSourceOrder ==
    (DestructuresNamedExports /\ WithoutExplicitNames) =>
        LET IsNew(i) == ~HadNamedLocal(i)
            new == SelectSeq(ElementIndices, IsNew)
        IN  /\ AddsNamedImportOf(new)
            /\ result.kind = "object"
            /\ Len(result.entries) = Len(node.elements)
            /\ \A i \in 1..Len(node.elements) :
                  result.entries[i].key = ElementExportedName(node.elements[i])

\* C10 as amended: the named import holds exactly the elements that are not
\* reused (an element is reused when it gives no explicit exported name and
\* its name had a named local), and the object literal lists the new
\* elements in source order, then the reused ones in source order.
C10_LiteralNewThenReused ==
    DestructuresNamedExports =>
        LET IsNew(i) == ~IsSkipped(i)
            new == SelectSeq(ElementIndices, IsNew)
            reused == SelectSeq(ElementIndices, IsSkipped)
        IN  /\ AddsNamedImportOf(new)
            /\ ReplacedByLiteralOf(new \o reused, Len(new))

\* A reused element before a new one: the literal starts with the new one.
C10_Witness ==
    /\ DestructuresNamedExports
    /\ Len(node.elements) = 2
    /\ IsSkipped(1)
    /\ ~IsSkipped(2)
    /\ Len(Added) = 1
    /\ result.kind = "object"
    /\ result.entries[1].key = ElementExportedName(node.elements[2])
    /\ result.entries[1].key # result.entries[2].key

\* A member access with a static key that is a named export of the module.
StaticAccessOfNamedExport ==
    /\ Required
    /\ node.access = "static"
    /\ Exports.known
    /\ node.key \in Exports.namedExports

\* The name the accessed export is bound to after the visit: its named local
\* if it had one; else the namespace local, if the module has no default
\* export and had one (no import is added in either case); else the local of
\* the one named import the visit adds, which is the key if the key was free
\* and else a name that was free.
BoundNameIs(bound) ==
    LET m == node.specifier
        k == node.key
    IN  IF hasLocalForNamedImportPropertyNameFromModule(before, k, m)
        THEN /\ NoImportAdded
             /\ bound = getLocalForNamedImportPropertyNameFromModule(before, k, m)
        ELSE IF ~Exports.hasDefaultExport /\ hasLocalForNamespaceImportFromModule(before, m)
        THEN /\ NoImportAdded
             /\ bound = getLocalForNamespaceImportFromModule(before, m)
        ELSE /\ Len(Added) = 1
             /\ Added[1].spec = m
             /\ Added[1].kind = "named"
             /\ Len(Added[1].entries) = 1
             /\ ExportedName(Added[1].entries[1]) = k
             /\ Added[1].entries[1].name = bound
             /\ isIdentifierFree(before, bound)
             /\ ~isIdentifierFree(Context(imports, locals), bound)
             /\ isIdentifierFree(before, k) => bound = k

\* The call is removed if it is a statement, and else replaced by the object
\* literal of the one property (key, bound).
RemovedOrLiteralOf(bound) ==
    IF node.inStatement THEN result = Removed
    ELSE result = ObjectLiteral(<<Property(node.key, bound)>>)

BoundNames == locals \cup {node.key}

\* C11 as stated: an access of a named export reuses the named local of the
\* key, else the namespace local of a module without default export, else
\* adds a named import of the key; the call is removed if it is a statement
\* and else replaced by the object literal [(key, bound name)]. It is
\* stated for the accesses that no variable declaration holds.
C11_NamedThenNamespaceThenImport ==
    (StaticAccessOfNamedExport /\ node.decl = "none") =>
        \E bound \in BoundNames : BoundNameIs(bound) /\ RemovedOrLiteralOf(bound)

\* C11 as amended: the same for every such access but the statement of a
\* module without default export, which line 75 decides first: it is
\* removed, and the bare import of the module is the only import it may add.
C11_UnlessStatementWithoutDefault ==
    StaticAccessOfNamedExport =>
        IF node.inStatement /\ ~Exports.hasDefaultExport
        THEN /\ result = Removed
             /\ HasBareImport
             /\ Added \in {<<>>, <<BareImport(node.specifier)>>}
        ELSE \E bound \in BoundNames : BoundNameIs(bound) /\ RemovedOrLiteralOf(bound)

\* The key has no named local and the module, without default export, has a
\* namespace import: the literal holds the namespace local.
C11_Witness ==
    /\ StaticAccessOfNamedExport
    /\ ~node.inStatement
    /\ ~Exports.hasDefaultExport
    /\ ~hasLocalForNamedImportPropertyNameFromModule(before, node.key, node.specifier)
    /\ hasLocalForNamespaceImportFromModule(before, node.specifier)
    /\ NoImportAdded
    /\ result = ObjectLiteral(<<Property(node.key,
                   getLocalForNamespaceImportFromModule(before, node.specifier))>>)

\* The local names in what the call was replaced by: the replacing
\* identifier, or the values of the properties of the object literal.
ReplacementLocals ==
    IF result.kind = "identifier" THEN {result.name}
    ELSE IF result.kind = "object"
         THEN {result.entries[i].value : i \in 1..Len(result.entries)}
         ELSE {}

\* The locals of the default, namespace and named imports of m.
RecordedLocals(imps, m) ==
    UNION {ImportLocals(imps[i]) : i \in {j \in 1..Len(imps) : imps[j].spec = m}}

\* The identifiers the last visit made not free.
ReservedNames == locals \ before.locals

ReplacementLocalsRecorded ==
    ReplacementLocals \subseteq RecordedLocals(imports, node.specifier)
ReservedNamesImported ==
    ReservedNames \subseteq RecordedLocals(Added, node.specifier)

\* C12: after every visit, each local name in the call's replacement is the
\* local of a default, namespace or named import of the call's module
\* specifier, and each name the visit reserved is the local of an import the
\* same visit added (none is reserved and left unused).
C12_ReplacementAndReservedNamesImported ==
    visited > 0 => ReplacementLocalsRecorded /\ ReservedNamesImported

====
